---- MODULE Spec2Model ----
(***************************************************************************)
(* The layer registry (LayerStore) of react-simple-layer and the           *)
(* subscription adapter (useLayerStore) built on it.                       *)
(*                                                                         *)
(* JavaScript arrays are objects: the model keeps a heap of arrays and     *)
(* LayerStore.layers is a reference into it, so that identity of a         *)
(* snapshot (===) and equality of its contents are different things.       *)
(* An array nothing refers to any more is garbage and leaves the heap.     *)
(* LayerStore.listeners is a JavaScript Set: insertion ordered, without    *)
(* duplicates; it is modelled as a duplicate-free sequence.                *)
(***************************************************************************)
EXTENDS Integers, Sequences, FiniteSets, TLC

\* Bound on the number of calls (add, destroy, notify, subscribe, unsubscribe,
\* getSnapshot) the callers make in one behaviour.
MaxSteps == 5

\* Bound on the calls of add / destroy / notify made while notify is
\* modelled step by step
MaxCycleCalls == 2

\* Bound on the calls of add / destroy / notify in one behaviour when
\* listeners call add and destroy themselves, those calls included
MaxReentrantCalls == 3

\* Bound on the call count a callback keeps while notify is modelled step
\* by step: from there on the count stays.
MaxCalls == 3

\* Bound on the calls made on the store when it is used through the
\* handles createLayer returns
MaxFactorySteps == 4

\* The keys, props and callbacks the callers draw their arguments from.
Keys == {"modal-1", "modal-2"}
Props == {"p1", "p2"}
Callbacks == {"listener1", "listener2"}

\* What a caller's callback does when it is invoked, besides being counted
\* and reading the snapshot: nothing more ("plain"), calling the other
\* callback's unsubscribe closure, subscribing the other callback,
\* unsubscribing and subscribing itself again, or throwing.
Kinds == {"plain", "unsubOther", "subOther", "rearm", "throws"}

\* The kinds of callbacks where a callback may also call LayerStore.add or
\* LayerStore.destroy when it is invoked ("mutates")
ReentrantKinds == {"plain", "mutates", "unsubOther", "subOther"}

\* The places where a caller keeps the handles createLayer returns
Handles == {"h1", "h2"}

\* The layers of the legacy createLayer (src/index.tsx) and the ids a caller
\* passes as their root
LegacyLayers == {"layerA", "layerB"}
RootIds == {"layer-root", "custom-root"}

\* The mounted <LayerRoot/> instances a behaviour may have; a surface's name
\* also stands for the handleStoreChange callback React subscribes for it.
Surfaces == {"root1", "root2"}
\* The order in which React re-renders the surfaces that need it
SurfaceOrder == <<"root1", "root2">>

\* type Layer = { key, component, destroy, props }: component and destroy
\* are closures over the key, so a layer value is told apart by key and props.
Layer == [key : Keys, props : Props]

VARIABLES
  layers,     \* LayerStore.layers: reference of the current array
  listeners,  \* LayerStore.listeners: Set<() => void>, in insertion order
  heap,       \* the live array objects, by reference
  nextRef,    \* the reference the next array object gets
  obs,        \* per callback: how often it ran and what its latest run read
  unsubs,     \* the unsubscribe closures returned so far: the listener each one captured
  capUse,     \* per closure: "new", "called", or "resub" when its listener was
              \* subscribed again after the closure's latest call
  snap,       \* what the reader's latest getSnapshot() call returned
  since,      \* the kinds of call made on the store since that getSnapshot() call
  last,       \* the latest call made on the store, with the state it started from
  ops,        \* the number of add / destroy / notify calls made so far
  steps,      \* the number of calls of any kind made so far
  subAt,      \* per callback: where the run stood when it entered the listener set
  kind,       \* per callback: what it does when invoked (one of Kinds)
  frames,     \* the forEach calls under way, innermost last: how many entries
              \* of the listener set each one has passed
  lg,         \* per legacy layer (src/index.tsx): whether createLayer made it,
              \* whether its component is a class, its container element,
              \* its React root, layer.instance, the render React has yet to
              \* commit and the one it committed
  els,        \* the container elements, named by the layer whose createLayer
              \* created them: their id and whether they are in the document
  tasks,      \* the microtask queue: the layers whose destroy() queued a task
  faulty,     \* the keys of the layers whose component throws when it is rendered
  hist,       \* every layer a call has added so far, in the order of the calls,
              \* each with whether its key was passed to no destroy since
  created,    \* per place: <<>>, or the one createLayer call made for it: its
              \* key argument and the handle it returned
  containers, \* per id: how many elements of that id the LayerRoots' document has
  surf        \* per surface: whether it is mounted, its root prop, the snapshot
              \* useLayerStore returned to its latest render, the children that
              \* render produced, how often it rendered, whether a re-render
              \* is due

vars == <<layers, listeners, heap, nextRef, obs, unsubs, capUse, snap, since, last, ops, steps,
          subAt, kind, frames, lg, els, tasks, faulty, hist, created, containers,
          surf>>

----------------------------------------------------------------------------
\* JavaScript Set and Array primitives

\* Set.prototype.add: an element already present keeps its place.
SetAdd(s, x) == IF \E i \in DOMAIN s : s[i] = x THEN s ELSE Append(s, x)

\* Set.prototype.delete
SetDelete(s, x) == SelectSeq(s, LAMBDA y : y # x)

\* Set.prototype.has
SetHas(s, x) == \E i \in DOMAIN s : s[i] = x

\* The members of a Set
Members(s) == {s[i] : i \in DOMAIN s}

\* A fresh array object holding arr; its reference is w.nextRef.
alloc(w, arr) ==
  [w EXCEPT !.heap = (w.nextRef :> arr) @@ w.heap, !.nextRef = @ + 1]

\* The array LayerStore.layers refers to.
contents(w) == w.heap[w.layers]

\* The heap h without the arrays that no root refers to
Collect(h, roots) == [r \in (DOMAIN h) \cap roots |-> h[r]]

----------------------------------------------------------------------------
\* The store, as operators on the world
\* w = [layers, listeners, heap, nextRef, obs, surf, frames, error]

\* useSyncExternalStore's second argument: () => LayerStore.layers
getSnapshot(w) == w.layers

\* The callback React subscribes for a surface: a re-render is due when
\* getSnapshot() no longer returns what the surface's latest render got.
handleStoreChange(w, s) ==
  IF w.surf[s].value # getSnapshot(w) THEN [w EXCEPT !.surf[s].dirty = TRUE] ELSE w

\* A registered callback runs. A callback of a caller is counted and reads
\* the snapshot; a surface's callback is React's handleStoreChange.
listener(w, l) ==
  IF l \in Surfaces THEN handleStoreChange(w, l)
  ELSE [w EXCEPT !.obs[l] = [calls |-> @.calls + 1,
                             ref |-> getSnapshot(w),
                             contents |-> w.heap[getSnapshot(w)]]]

\* Set.prototype.forEach from position i on, reading the live set.
RECURSIVE forEach(_, _)
forEach(w, i) ==
  IF w.error \/ i > Len(w.listeners) THEN w
  ELSE forEach(listener(w, w.listeners[i]), i + 1)

\* notify, publishing a copy of the array first
notifyCopying(w) ==
  forEach([alloc(w, contents(w)) EXCEPT !.layers = w.nextRef], 1)

\* notify, skipping the listener registered first
notifySkipFirst(w) == forEach(w, 2)

\* notify, going through the set twice
notifyTwice(w) == forEach(forEach(w, 1), 1)

\* notify, dropping the listeners it has called
notifyOnce(w) == [forEach(w, 1) EXCEPT !.listeners = <<>>]

\* LayerStore.notify
notify(w) == forEach(w, 1)

\* add, putting the layer in front
addFront(w, layer) ==
  notify([alloc(w, <<layer>> \o contents(w)) EXCEPT !.layers = w.nextRef])

\* add, pushing onto the current array in place
addInPlace(w, layer) ==
  notify([w EXCEPT !.heap[w.layers] = Append(@, layer)])

\* add, notifying before the assignment
addNotifyFirst(w, layer) ==
  LET n == notify(w)
  IN  [alloc(n, Append(contents(n), layer)) EXCEPT !.layers = n.nextRef]

\* add, dropping the oldest entry once two are registered
addEvicting(w, layer) ==
  LET arr == IF Len(contents(w)) >= 2 THEN Tail(contents(w)) ELSE contents(w)
  IN  notify([alloc(w, Append(arr, layer)) EXCEPT !.layers = w.nextRef])

\* add, refusing a layer whose component throws when rendered
addRendering(w, layer) ==
  IF layer.key \in faulty THEN [w EXCEPT !.error = TRUE]
  ELSE notify([alloc(w, Append(contents(w), layer)) EXCEPT !.layers = w.nextRef])

\* add, replacing the entries that have the key already
addReplacing(w, layer) ==
  notify([alloc(w, Append(SelectSeq(contents(w), LAMBDA e : e.key # layer.key), layer))
            EXCEPT !.layers = w.nextRef])

\* LayerStore.add
add(w, layer) ==
  notify([alloc(w, Append(contents(w), layer)) EXCEPT !.layers = w.nextRef])

\* The index of the first entry of arr with the key, 0 when there is none
FirstWithKey(arr, key) ==
  IF \E i \in DOMAIN arr : arr[i].key = key
  THEN CHOOSE i \in DOMAIN arr :
         arr[i].key = key /\ \A j \in 1..(i - 1) : arr[j].key # key
  ELSE 0

\* destroy, removing the first matching entry only
destroyFirst(w, key) ==
  LET arr == contents(w)
      i   == FirstWithKey(arr, key)
      out == IF i = 0 THEN arr
             ELSE SubSeq(arr, 1, i - 1) \o SubSeq(arr, i + 1, Len(arr))
  IN  notify([alloc(w, out) EXCEPT !.layers = w.nextRef])

\* destroy, splicing the matching entries out of the current array in place
destroyInPlace(w, key) ==
  notify([w EXCEPT !.heap[w.layers] = SelectSeq(@, LAMBDA layer : layer.key # key)])

\* destroy, notifying only when an entry was removed
destroyIfChanged(w, key) ==
  LET out == SelectSeq(contents(w), LAMBDA layer : layer.key # key)
      w1  == [alloc(w, out) EXCEPT !.layers = w.nextRef]
  IN  IF out = contents(w) THEN w1 ELSE notify(w1)

\* destroy, removing only the last entry that has the key
destroyLast(w, key) ==
  LET arr  == contents(w)
      hits == {i \in DOMAIN arr : arr[i].key = key}
      out  == IF hits = {} THEN arr
              ELSE LET i == CHOOSE j \in hits : \A h \in hits : h <= j
                   IN  SubSeq(arr, 1, i - 1) \o SubSeq(arr, i + 1, Len(arr))
  IN  notify([alloc(w, out) EXCEPT !.layers = w.nextRef])

\* destroy, removing the last entry as well
destroyTrailing(w, key) ==
  LET out == SelectSeq(contents(w), LAMBDA layer : layer.key # key)
  IN  notify([alloc(w, SubSeq(out, 1, Len(out) - 1)) EXCEPT !.layers = w.nextRef])

\* LayerStore.destroy
destroy(w, key) ==
  notify([alloc(w, SelectSeq(contents(w), LAMBDA layer : layer.key # key))
            EXCEPT !.layers = w.nextRef])

\* subscribe, keeping the listeners in a list without looking for duplicates
subscribeDup(w, l) == [w EXCEPT !.listeners = Append(@, l)]

\* subscribe, registering nothing
subscribeLate(w, l) == w

\* subscribe, calling the listener at once
subscribeNotifying(w, l) == listener([w EXCEPT !.listeners = SetAdd(@, l)], l)

\* useLayerStore's subscribe: LayerStore.listeners.add(listener)
subscribe(w, l) == [w EXCEPT !.listeners = SetAdd(@, l)]

\* unsubscribe, putting the listener back when it is not in the set
unsubscribeToggle(w, l) ==
  [w EXCEPT !.listeners = IF SetHas(@, l) THEN SetDelete(@, l) ELSE Append(@, l)]

\* unsubscribe, clearing the whole set
unsubscribeAll(w, l) == [w EXCEPT !.listeners = <<>>]

\* unsubscribe, leaving the listener where it is
unsubscribeNothing(w, l) == w

\* unsubscribe, removing the listener only when no other closure returned
\* for it is still to be called
unsubscribeCounted(w, l) ==
  IF Cardinality({c \in DOMAIN unsubs : unsubs[c] = l /\ capUse[c] # "called"}) > 1
  THEN w
  ELSE [w EXCEPT !.listeners = SetDelete(@, l)]

\* The closure subscribe returns: LayerStore.listeners.delete(listener)
unsubscribe(w, l) == [w EXCEPT !.listeners = SetDelete(@, l)]

\* The position of x in the set s, 0 when it is not a member
Position(s, x) == IF SetHas(s, x) THEN CHOOSE i \in DOMAIN s : s[i] = x ELSE 0

\* The closure called while forEach calls are under way, taking effect
\* only for later notifications
unsubscribeAfterCycle(w, l) == w

\* The closure subscribe returns, called while forEach calls are under way:
\* Set.prototype.delete empties the entry, so an entry forEach has not
\* reached is skipped, and the entries forEach has passed are one fewer when
\* the deleted entry was among them.
unsubscribeDuring(w, l) ==
  LET p == Position(w.listeners, l)
  IN  [unsubscribe(w, l) EXCEPT
         !.frames = [k \in DOMAIN @ |->
                       IF p # 0 /\ p <= @[k].cursor
                       THEN [@[k] EXCEPT !.cursor = @ - 1] ELSE @[k]]]

\* The callback other than l
Other(l) == CHOOSE o \in Callbacks : o # l

\* A caller's callback l is invoked and does what its kind says.
callback(w, l) ==
  LET w1 == [listener(w, l) EXCEPT
               !.obs[l].calls = IF @ > MaxCalls THEN MaxCalls ELSE @]
  IN  CASE kind[l] = "plain"      -> w1
        [] kind[l] = "mutates"    -> w1
        [] kind[l] = "unsubOther" -> unsubscribeDuring(w1, Other(l))
        [] kind[l] = "subOther"   -> subscribe(w1, Other(l))
        [] kind[l] = "rearm"      -> subscribe(unsubscribeDuring(w1, l), l)
        [] kind[l] = "throws"     -> [w1 EXCEPT !.error = TRUE]

\* forEach's call of a listener, with the listener's exception caught
invokeGuarded(w, l) == [callback(w, l) EXCEPT !.error = FALSE]

\* forEach's call of a listener: listener => listener(), nothing caught
invoke(w, l) == callback(w, l)

\* notify called while a forEach is under way, doing nothing
notifyNestedIgnored(w) == w

\* notify called while a forEach is under way: a forEach of its own over
\* the listeners, from the first entry
notifyNested(w) == [w EXCEPT !.frames = Append(@, [cursor |-> 0])]

\* add up to the notification, refusing a key that is already present
addAssignUnique(w, layer) ==
  IF \E i \in DOMAIN contents(w) : contents(w)[i].key = layer.key
  THEN [w EXCEPT !.error = TRUE]
  ELSE [alloc(w, Append(contents(w), layer)) EXCEPT !.layers = w.nextRef]

\* LayerStore.add up to the notification:
\* LayerStore.layers = [...LayerStore.layers, layer]
addAssign(w, layer) ==
  [alloc(w, Append(contents(w), layer)) EXCEPT !.layers = w.nextRef]

\* LayerStore.destroy up to the notification:
\* LayerStore.layers = LayerStore.layers.filter(layer => layer.key !== key)
destroyAssign(w, key) ==
  [alloc(w, SelectSeq(contents(w), LAMBDA layer : layer.key # key))
     EXCEPT !.layers = w.nextRef]

\* LayerRoot's children, in reverse
RECURSIVE LayerRootChildrenReversed(_)
LayerRootChildrenReversed(arr) ==
  IF arr = <<>> THEN <<>>
  ELSE LayerRootChildrenReversed(Tail(arr))
         \o <<[elementKey |-> Head(arr).key, elementProps |-> Head(arr).props]>>

\* LayerRoot's children: store.map(layer => React.createElement(
\* layer.component, {...layer.props, key: layer.key}))
RECURSIVE LayerRootChildren(_)
LayerRootChildren(arr) ==
  IF arr = <<>> THEN <<>>
  ELSE <<[elementKey |-> Head(arr).key, elementProps |-> Head(arr).props]>>
         \o LayerRootChildren(Tail(arr))

\* createRenderRoot, appending a new div whatever the document has
createRenderRootAlways(w, id) == [w EXCEPT !.containers[id] = @ + 1]

\* LayerRoot's createRenderRoot(id): the element document.getElementById
\* finds, or else a new div with the id appended to document.body
createRenderRootPortal(w, id) ==
  IF w.containers[id] > 0 THEN w ELSE [w EXCEPT !.containers[id] = @ + 1]

\* LayerRoot rendering its children only when it is the first surface
renderSurfaceFirstOnly(w, s) ==
  [createRenderRootPortal(w, w.surf[s].root) EXCEPT
     !.surf[s] = [mounted |-> TRUE,
                  value |-> getSnapshot(w),
                  output |-> IF s = SurfaceOrder[1]
                             THEN LayerRootChildren(w.heap[getSnapshot(w)])
                             ELSE <<>>,
                  renders |-> @.renders + 1,
                  dirty |-> FALSE,
                  root |-> @.root]]

\* LayerRoot renders: useLayerStore() returns getSnapshot(), and the
\* children go into the portal on createRenderRoot(root).
renderSurface(w, s) ==
  [createRenderRootPortal(w, w.surf[s].root) EXCEPT
     !.surf[s] = [mounted |-> TRUE,
                  value |-> getSnapshot(w),
                  output |-> LayerRootChildren(w.heap[getSnapshot(w)]),
                  renders |-> @.renders + 1,
                  dirty |-> FALSE,
                  root |-> @.root]]

\* A LayerRoot unmounts: React calls the unsubscribe closure it holds.
unmount(w, s) ==
  [unsubscribe(w, s) EXCEPT !.surf[s] = [mounted |-> FALSE, value |-> 0,
                                         output |-> <<>>, renders |-> @.renders,
                                         dirty |-> FALSE, root |-> @.root]]

\* React renders the children of a LayerRoot: one of them throws
RenderFails(w) == \E i \in DOMAIN contents(w) : contents(w)[i].key \in faulty

\* A LayerRoot mounts: it renders, then React subscribes its callback; when
\* a child throws, nothing is mounted and nothing subscribed, but LayerRoot
\* has called createRenderRoot.
mount(w, s) ==
  IF RenderFails(w) THEN createRenderRootPortal(w, w.surf[s].root)
  ELSE subscribe(renderSurface(w, s), s)

\* A mounted LayerRoot re-renders: useLayerStore makes a new subscribe
\* function in every render, so React calls the unsubscribe closure of the
\* previous render and subscribes again; when a child throws, React takes
\* the LayerRoot down, which calls the unsubscribe closure.
rerender(w, s) ==
  IF RenderFails(w) THEN unmount(w, s)
  ELSE subscribe(unsubscribe(renderSurface(w, s), s), s)

\* React re-renders the surfaces whose callback asked for it, from the
\* i-th of SurfaceOrder on.
RECURSIVE flush(_, _)
flush(w, i) ==
  IF i > Len(SurfaceOrder) THEN w
  ELSE flush(IF w.surf[SurfaceOrder[i]].dirty THEN rerender(w, SurfaceOrder[i]) ELSE w,
             i + 1)

\* The handles createLayer(Component, key) returns, one per key a caller passes
Instances == [key : Keys]

\* render, replacing the entries the instance already has
renderReplace(w, inst, props) ==
  notify([alloc(w, Append(SelectSeq(contents(w), LAMBDA layer : layer.key # inst.key),
                          [key |-> inst.key, props |-> props]))
            EXCEPT !.layers = w.nextRef])

\* createLayer's render: LayerStore.add({...layer, props})
render(w, inst, props) == add(w, [key |-> inst.key, props |-> props])

\* The index of the last entry of arr with the key, 0 when there is none
LastWithKey(arr, key) ==
  IF \E i \in DOMAIN arr : arr[i].key = key
  THEN CHOOSE i \in DOMAIN arr :
         arr[i].key = key /\ \A j \in (i + 1)..Len(arr) : arr[j].key # key
  ELSE 0

\* the instance's destroy, taking back its latest render only
instanceDestroyLatest(w, inst) ==
  LET arr == contents(w)
      i   == LastWithKey(arr, inst.key)
      out == IF i = 0 THEN arr
             ELSE SubSeq(arr, 1, i - 1) \o SubSeq(arr, i + 1, Len(arr))
  IN  notify([alloc(w, out) EXCEPT !.layers = w.nextRef])

\* createLayer's destroy: LayerStore.destroy(layer.key)
instanceDestroy(w, inst) == destroy(w, inst.key)

\* layer.destroy, removing the entries without a notification
layerDestroySilent(w, inst) == destroyAssign(w, inst.key)

\* The destroy capability of the layer a component gets as its layer prop:
\* destroy() { LayerStore.destroy(layer.key) }
layerDestroy(w, inst) == destroy(w, inst.key)

\* What a caller passes as createLayer's optional key: nothing, or one string
ProvidedKeys == {"modal-1", ""}
KeyArgs == {<<>>} \cup {<<k>> : k \in ProvidedKeys}

\* The values Math.random() returns here, in 256ths
RandomValues == {0, 200}

\* The hexadecimal digit of d
HexDigit(d) == SubSeq("0123456789abcdef", d + 1, d + 1)

\* (r / 256).toString(16): "0" for zero, else "0." and the hexadecimal
\* fraction without trailing zeros
toString16(r) ==
  IF r = 0 THEN "0"
  ELSE "0." \o HexDigit(r \div 16) \o (IF r % 16 = 0 THEN "" ELSE HexDigit(r % 16))

\* String.prototype.slice(from)
slice(str, from) == SubSeq(str, from + 1, Len(str))

\* a || b on strings, a absent (<<>>) or present (<<str>>): the empty string
\* is falsy like undefined
OrElse(a, b) == IF a # <<>> /\ a[1] # "" THEN a[1] ELSE b

\* The handle createLayer(Component, key) returns when Math.random() would
\* return r: key || Math.random().toString(16).slice(2)
createLayer(arg, r) == [key |-> OrElse(arg, slice(toString16(r), 2))]

----------------------------------------------------------------------------
\* The legacy createLayer of src/index.tsx, on a world
\* lw = [lg, els, tasks, error]

\* The container elements in the document that have the id
Found(lw, id) == {e \in LegacyLayers : lw.els[e].attached /\ lw.els[e].id = id}

\* createRenderRoot(id) called for the layer l: the element of that id the
\* document has, or else a new div with the id appended to document.body
createRenderRoot(lw, l, id) ==
  IF Found(lw, id) # {}
  THEN [lw EXCEPT !.lg[l].root = CHOOSE e \in Found(lw, id) : TRUE]
  ELSE [lw EXCEPT !.lg[l].root = l, !.els[l] = [id |-> id, attached |-> TRUE]]

\* createLayer(Component, root) with root a string: the layer object with
\* its container, then layer.Root = createRoot(layer.root)
legacyCreateLayer(lw, l, isClass, id) ==
  [createRenderRoot(lw, l, id) EXCEPT
     !.lg[l].made = TRUE, !.lg[l].isClass = isClass, !.lg[l].Root = "live"]

\* layer.render(props) with a root that commits the render in the call
legacyRenderSync(lw, l, props) ==
  IF lw.lg[l].Root = "unmounted" THEN [lw EXCEPT !.error = TRUE]
  ELSE [lw EXCEPT !.lg[l].shown = <<props>>,
                  !.lg[l].instance = IF lw.lg[l].isClass THEN "set" ELSE @]

\* layer.render(props): layer.Root?.render(createElement(Component, props));
\* React leaves the render to a later task, and throws on an unmounted root
legacyRender(lw, l, props) ==
  IF lw.lg[l].Root = "unmounted" THEN [lw EXCEPT !.error = TRUE]
  ELSE [lw EXCEPT !.lg[l].scheduled = <<props>>]

\* React commits the render it has scheduled for the root of l; the ref of
\* a class component sets layer.instance
commit(lw, l) ==
  [lw EXCEPT !.lg[l].shown = lw.lg[l].scheduled,
             !.lg[l].scheduled = <<>>,
             !.lg[l].instance = IF lw.lg[l].isClass THEN "set" ELSE @]

\* layer.destroy(): window.queueMicrotask(...)
legacyDestroy(lw, l) == [lw EXCEPT !.tasks = Append(@, l)]

\* How many children the container element e has
Children(lw, e) ==
  Cardinality({l \in LegacyLayers : lw.lg[l].made /\ lw.lg[l].root = e
                                     /\ lw.lg[l].shown # <<>>})

\* The queued task, unmounting the root and keeping layer.instance
destroyTaskKeepingInstance(lw, l) ==
  [lw EXCEPT !.lg[l].Root = "unmounted", !.lg[l].scheduled = <<>>,
             !.lg[l].shown = <<>>]

\* The queued task, removing the container whatever it holds
destroyTaskDetaching(lw, l) ==
  [lw EXCEPT !.lg[l].Root = "unmounted", !.lg[l].scheduled = <<>>,
             !.lg[l].shown = <<>>, !.lg[l].instance = "null",
             !.els[lw.lg[l].root].attached = FALSE]

\* The task destroy() queued: Root?.unmount(); layer.instance = null; and
\* the container leaves the document when it has a parent and no children
destroyTask(lw, l) ==
  LET u == [lw EXCEPT !.lg[l].Root = "unmounted", !.lg[l].scheduled = <<>>,
                      !.lg[l].shown = <<>>, !.lg[l].instance = "null"]
      e == lw.lg[l].root
  IN  IF u.els[e].attached /\ Children(u, e) = 0
      THEN [u EXCEPT !.els[e].attached = FALSE]
      ELSE u

----------------------------------------------------------------------------
\* The state machine

\* The program state as one value
World ==
  [layers |-> layers, listeners |-> listeners, heap |-> heap,
   nextRef |-> nextRef, obs |-> obs, surf |-> surf, frames |-> frames,
   containers |-> containers, error |-> FALSE]

\* How often each callback has run
Calls(w) == [l \in Callbacks |-> w.obs[l].calls]

\* The part of a state a call is later compared with
Pre(w) ==
  [layers |-> w.layers, contents |-> contents(w), listeners |-> w.listeners,
   calls |-> Calls(w)]

\* layers: [] and listeners: new Set(); no call has been made
InitStore ==
  /\ layers = 1
  /\ listeners = <<>>
  /\ heap = (1 :> <<>>)
  /\ nextRef = 2
  /\ obs = [l \in Callbacks |-> [calls |-> 0, ref |-> 0, contents |-> <<>>]]
  /\ unsubs = <<>>
  /\ capUse = <<>>
  /\ snap = [ref |-> 0, contents |-> <<>>]
  /\ since = {}
  /\ last = [op |-> "none", arg |-> "", error |-> FALSE,
             pre |-> [layers |-> 1, contents |-> <<>>, listeners |-> <<>>,
                      calls |-> [l \in Callbacks |-> 0]]]
  /\ ops = 0
  /\ steps = 0
  /\ subAt = [l \in Callbacks |-> [ops |-> 0, calls |-> 0]]
  /\ surf = [s \in Surfaces |-> [mounted |-> FALSE, value |-> 0, output |-> <<>>,
                                renders |-> 0, dirty |-> FALSE,
                                root |-> "layer-root"]]
  /\ containers = [id \in RootIds |-> 0]
  /\ frames = <<>>
  /\ created = [h \in Handles |-> <<>>]
  /\ hist = <<>>
  /\ lg = [l \in LegacyLayers |->
            [made |-> FALSE, isClass |-> FALSE, root |-> l, Root |-> "none",
             instance |-> "null", scheduled |-> <<>>, shown |-> <<>>]]
  /\ els = [e \in LegacyLayers |-> [id |-> "", attached |-> FALSE]]
  /\ tasks = <<>>

\* The store at start, with callbacks that only count and read
Init ==
  /\ InitStore
  /\ kind = [l \in Callbacks |-> "plain"]
  /\ faulty = {}

\* The store's state after a call that left the world w2; arrays that
\* neither the store nor a reader nor a callback still holds are collected.
Publish(w2) ==
  /\ layers' = w2.layers
  /\ listeners' = w2.listeners
  /\ nextRef' = w2.nextRef
  /\ obs' = w2.obs
  /\ surf' = w2.surf
  /\ frames' = w2.frames
  /\ kind' = kind
  /\ faulty' = faulty
  /\ UNCHANGED <<lg, els, tasks>>
  /\ containers' = w2.containers
  /\ created' = created
  /\ heap' = Collect(w2.heap,
                     {w2.layers, snap'.ref, last'.pre.layers}
                       \cup {w2.obs[l].ref : l \in Callbacks}
                       \cup {w2.surf[s].value : s \in Surfaces})

\* The layer the call op(arg) adds, and the key it passes to destroy: a
\* sequence of one, or none
AddedBy(op, arg) ==
  CASE op = "add"    -> <<arg>>
    [] op = "render" -> <<[key |-> arg.inst.key, props |-> arg.props]>>
    [] OTHER         -> <<>>
DestroyedBy(op, arg) ==
  CASE op = "destroy" -> <<arg>>
    [] op \in {"instanceDestroy", "layerDestroy"} -> <<arg.key>>
    [] OTHER -> <<>>

\* The history h after the call op(arg)
Log(h, op, arg) ==
  [i \in DOMAIN h |->
     IF DestroyedBy(op, arg) # <<>> /\ h[i].layer.key = DestroyedBy(op, arg)[1]
     THEN [h[i] EXCEPT !.alive = FALSE] ELSE h[i]]
  \o [i \in DOMAIN AddedBy(op, arg) |-> [layer |-> AddedBy(op, arg)[i], alive |-> TRUE]]

\* One call by some caller, while the behaviour is within its bound
Call ==
  /\ frames = <<>>
  /\ steps < MaxSteps
  /\ steps' = steps + 1

\* A call op that went through the store's add / destroy / notify (storeOp)
\* and left the world w2
RecordAs(op, storeOp, arg, w2) ==
  /\ last' = [op |-> op, arg |-> arg, error |-> w2.error, pre |-> Pre(World)]
  /\ ops' = ops + 1
  /\ since' = since \cup {storeOp}
  /\ hist' = Log(hist, op, arg)
  /\ UNCHANGED <<unsubs, capUse, snap, subAt>>
  /\ Publish(flush(w2, 1))

\* A call of add / destroy / notify that left the world w2
Record(op, arg, w2) == RecordAs(op, op, arg, w2)

\* A caller calls LayerStore.add(layer)
Add ==
  /\ Call
  /\ \E layer \in Layer : Record("add", layer, add(World, layer))

\* A caller calls LayerStore.destroy(key)
Destroy ==
  /\ Call
  /\ \E key \in Keys : Record("destroy", key, destroy(World, key))

\* A caller calls LayerStore.notify()
Notify ==
  /\ Call
  /\ Record("notify", "", notify(World))

\* A caller calls render(props) on a createLayer instance
Render ==
  /\ Call
  /\ \E inst \in Instances, props \in Props :
       RecordAs("render", "add", [inst |-> inst, props |-> props],
                render(World, inst, props))

\* A caller calls destroy() on a createLayer instance
InstanceDestroy ==
  /\ Call
  /\ \E inst \in Instances :
       RecordAs("instanceDestroy", "destroy", inst, instanceDestroy(World, inst))

\* A reader subscribes the callback l and keeps the closure it gets back
Subscribe ==
  /\ Call
  /\ \E l \in Callbacks :
       LET w2 == subscribe(World, l)
       IN  /\ unsubs' = Append(unsubs, l)
           /\ capUse' = Append([c \in DOMAIN capUse |->
                                  IF unsubs[c] = l /\ capUse[c] = "called"
                                  THEN "resub" ELSE capUse[c]], "new")
           /\ last' = [op |-> "subscribe", arg |-> l, error |-> w2.error,
                       pre |-> Pre(World)]
           /\ subAt' = IF SetHas(listeners, l) THEN subAt
                       ELSE [subAt EXCEPT ![l] = [ops |-> ops,
                                                  calls |-> obs[l].calls]]
           /\ since' = since \cup {"subscribe"}
           /\ UNCHANGED <<snap, ops, hist>>
           /\ Publish(w2)

\* A reader calls one of the closures subscribe returned
Unsubscribe ==
  /\ Call
  /\ \E c \in DOMAIN unsubs :
       LET w2 == unsubscribe(World, unsubs[c])
       IN  /\ last' = [op |-> "unsubscribe", arg |-> unsubs[c], error |-> w2.error,
                       pre |-> Pre(World), use |-> capUse[c]]
           /\ capUse' = [capUse EXCEPT ![c] = "called"]
           /\ since' = since \cup {"unsubscribe"}
           /\ UNCHANGED <<unsubs, snap, ops, subAt, hist>>
           /\ Publish(w2)

\* A reader calls getSnapshot() and keeps what it returned
GetSnapshot ==
  /\ Call
  /\ snap' = [ref |-> getSnapshot(World), contents |-> heap[getSnapshot(World)]]
  /\ since' = {}
  /\ UNCHANGED <<unsubs, capUse, last, ops, subAt, hist>>
  /\ Publish(World)

\* A <LayerRoot root={id}/> is mounted
Mount ==
  /\ Call
  /\ \E s \in Surfaces, id \in RootIds :
       /\ ~surf[s].mounted
       /\ last' = [op |-> "mount", arg |-> s, error |-> FALSE, pre |-> Pre(World)]
       /\ since' = since \cup {"mount"}
       /\ UNCHANGED <<unsubs, capUse, snap, ops, subAt, hist>>
       /\ Publish(mount([World EXCEPT !.surf[s].root = id], s))

\* A mounted <LayerRoot/> is unmounted
Unmount ==
  /\ Call
  /\ \E s \in Surfaces :
       /\ surf[s].mounted
       /\ last' = [op |-> "unmount", arg |-> s, error |-> FALSE, pre |-> Pre(World)]
       /\ since' = since \cup {"unmount"}
       /\ UNCHANGED <<unsubs, capUse, snap, ops, subAt, hist>>
       /\ Publish(unmount(World, s))

Next ==
  \/ Add
  \/ Destroy
  \/ Notify
  \/ Render
  \/ InstanceDestroy
  \/ Subscribe
  \/ Unsubscribe
  \/ GetSnapshot

Spec == Init /\ [][Next]_vars

----------------------------------------------------------------------------
\* The store with notify modelled one listener call at a time, for
\* callbacks that change the listener set or throw while they are notified

\* The store at start, with callbacks of any kind
InitCycle ==
  /\ InitStore
  /\ kind \in [Callbacks -> Kinds]
  /\ faulty = {}

\* A caller calls add / destroy / notify: w2 is the world after the
\* assignment; the call goes on with listeners.forEach.
Begin(op, arg, w2) ==
  /\ last' = [op |-> op, arg |-> arg, error |-> w2.error, pre |-> Pre(World),
              done |-> FALSE, ran |-> [l \in Callbacks |-> 0], beat |-> 0,
              seen |-> {}, nested |-> 0]
  /\ ops' = ops + 1
  /\ since' = since \cup {op}
  /\ hist' = Log(hist, op, arg)
  /\ UNCHANGED <<unsubs, capUse, snap, subAt>>
  /\ Publish(IF w2.error THEN w2 ELSE [w2 EXCEPT !.frames = <<[cursor |-> 0]>>])

\* LayerStore.add(layer) is called
CallAdd ==
  /\ Call
  /\ ops < MaxCycleCalls
  /\ \E layer \in Layer : Begin("add", layer, addAssign(World, layer))

\* LayerStore.destroy(key) is called
CallDestroy ==
  /\ Call
  /\ ops < MaxCycleCalls
  /\ \E key \in Keys : Begin("destroy", key, destroyAssign(World, key))

\* LayerStore.notify() is called
CallNotify ==
  /\ Call
  /\ ops < MaxCycleCalls
  /\ Begin("notify", "", World)

\* forEach calls the next listener; an exception ends the call under way.
\* last.ran counts the invocations of each callback in the call (0, 1, or 2
\* for two or more), last.beat alternates with every invocation, and
\* last.seen has the callbacks invoked since the latest assignment of
\* LayerStore.layers.
CycleStep ==
  /\ frames # <<>>
  /\ frames[Len(frames)].cursor < Len(listeners)
  /\ LET l  == listeners[frames[Len(frames)].cursor + 1]
         w2 == invoke([World EXCEPT !.frames[Len(frames)].cursor = @ + 1], l)
     IN  /\ last' = [last EXCEPT !.ran[l] = IF @ >= 2 THEN 2 ELSE @ + 1,
                                 !.error = w2.error,
                                 !.beat = 1 - @,
                                 !.seen = @ \cup {l}]
         /\ UNCHANGED <<unsubs, capUse, snap, since, ops, steps, subAt, hist>>
         /\ Publish(IF w2.error THEN [w2 EXCEPT !.frames = <<>>] ELSE w2)

\* forEach has passed every entry: the call returns.
CycleEnd ==
  /\ frames # <<>>
  /\ frames[Len(frames)].cursor >= Len(listeners)
  /\ last' = [last EXCEPT !.done = TRUE]
  /\ UNCHANGED <<unsubs, capUse, snap, since, ops, steps, subAt, hist>>
  /\ Publish([World EXCEPT !.frames = SubSeq(@, 1, Len(@) - 1)])

NextCycle ==
  \/ CallAdd
  \/ CallDestroy
  \/ CallNotify
  \/ CycleStep
  \/ CycleEnd
  \/ Subscribe

SpecCycle == InitCycle /\ [][NextCycle]_vars

\* A call that is under way goes on: the engine runs it without suspending.
SpecCycleFair == SpecCycle /\ WF_vars(CycleStep) /\ WF_vars(CycleEnd)

\* The store at start, with callbacks that may call add and destroy
InitReentrant ==
  /\ InitStore
  /\ kind \in [Callbacks -> ReentrantKinds]
  /\ faulty = {}

\* forEach calls the next listener, and the listener calls LayerStore.add
\* or LayerStore.destroy: w2 is the world after that call's assignment, and
\* the call goes on with a forEach of its own.
Reenter(l, w2) ==
  /\ last' = [last EXCEPT !.ran[l] = IF @ >= 2 THEN 2 ELSE @ + 1,
                          !.beat = 1 - @,
                          !.seen = {},
                          !.nested = @ + 1]
  /\ ops' = ops + 1
  /\ UNCHANGED <<unsubs, capUse, snap, since, steps, subAt, hist>>
  /\ Publish(notifyNested(w2))

\* A listener calls LayerStore.add(layer) when it is invoked
ReentrantAdd ==
  /\ frames # <<>>
  /\ frames[Len(frames)].cursor < Len(listeners)
  /\ ops < MaxReentrantCalls
  /\ LET l == listeners[frames[Len(frames)].cursor + 1]
     IN  /\ kind[l] = "mutates"
         /\ \E layer \in Layer :
              Reenter(l, addAssign(invoke([World EXCEPT
                           !.frames[Len(frames)].cursor = @ + 1], l), layer))

\* A listener calls LayerStore.destroy(key) when it is invoked
ReentrantDestroy ==
  /\ frames # <<>>
  /\ frames[Len(frames)].cursor < Len(listeners)
  /\ ops < MaxReentrantCalls
  /\ LET l == listeners[frames[Len(frames)].cursor + 1]
     IN  /\ kind[l] = "mutates"
         /\ \E key \in Keys :
              Reenter(l, destroyAssign(invoke([World EXCEPT
                           !.frames[Len(frames)].cursor = @ + 1], l), key))

\* A caller subscribes a callback that is not subscribed, before the first
\* call of add, destroy or notify
SubscribeFirst ==
  /\ ops = 0
  /\ Subscribe
  /\ Len(listeners') = Len(listeners) + 1

NextReentrant ==
  \/ CallAdd
  \/ CallDestroy
  \/ CallNotify
  \/ CycleStep
  \/ CycleEnd
  \/ ReentrantAdd
  \/ ReentrantDestroy
  \/ SubscribeFirst

SpecReentrant == InitReentrant /\ [][NextReentrant]_vars

\* The store with rendering surfaces on it
NextSurface ==
  \/ Add
  \/ Destroy
  \/ Notify
  \/ Mount
  \/ Unmount

SpecSurface == Init /\ [][NextSurface]_vars

\* The store at start, with components of any keys throwing when rendered
InitFaulty ==
  /\ InitStore
  /\ kind = [l \in Callbacks |-> "plain"]
  /\ faulty \in SUBSET Keys

\* The store with rendering surfaces on it and components that throw
SpecSurfaceFaulty == InitFaulty /\ [][NextSurface]_vars

----------------------------------------------------------------------------
\* The store used through createLayer handles

\* The places that hold a handle, and the handle in place h
Made == {h \in Handles : created[h] # <<>>}
Handle(h) == created[h][1].inst

\* A caller calls createLayer(Component, key) and keeps the handle.
\* createLayer neither reads nor writes the store, so the handles of a
\* behaviour are created before its first call on the store.
CreateLayer ==
  /\ steps = 0
  /\ \E h \in Handles \ Made, arg \in KeyArgs, r \in RandomValues :
       created' = [created EXCEPT ![h] = <<[arg |-> arg, inst |-> createLayer(arg, r)]>>]
  /\ last' = [op |-> "createLayer", arg |-> "", error |-> FALSE, pre |-> Pre(World)]
  /\ UNCHANGED <<layers, listeners, heap, nextRef, obs, unsubs, capUse, snap,
                 since, ops, steps, subAt, kind, frames, faulty, surf, hist,
                 lg, els, tasks, containers>>

\* A caller calls render(props) on a handle it created
RenderCreated ==
  /\ Call
  /\ steps < MaxFactorySteps
  /\ \E h \in Made, props \in Props :
       RecordAs("render", "add", [inst |-> Handle(h), props |-> props],
                render(World, Handle(h), props))

\* A caller calls destroy() on a handle it created
DestroyCreated ==
  /\ Call
  /\ steps < MaxFactorySteps
  /\ \E h \in Made :
       RecordAs("instanceDestroy", "destroy", Handle(h),
                instanceDestroy(World, Handle(h)))

\* The destroy capability of a created handle's layer is called, by a
\* component that got the layer as its layer prop or by the handle's holder
LayerDestroy ==
  /\ Call
  /\ steps < MaxFactorySteps
  /\ \E h \in Made :
       RecordAs("layerDestroy", "destroy", Handle(h),
                layerDestroy(World, Handle(h)))

\* A reader subscribes a callback while the store is used through handles
SubscribeFactory ==
  /\ steps < MaxFactorySteps
  /\ Subscribe

NextFactory ==
  \/ CreateLayer
  \/ RenderCreated
  \/ DestroyCreated
  \/ LayerDestroy
  \/ SubscribeFactory

SpecFactory == Init /\ [][NextFactory]_vars

----------------------------------------------------------------------------
\* The legacy createLayer: callers create, render and destroy layers; the
\* engine runs the queued microtasks and React's scheduled renders

\* The legacy state as one value
LegacyWorld == [lg |-> lg, els |-> els, tasks |-> tasks, error |-> FALSE]

\* A call on a legacy layer that left the legacy world lw2
LegacyRecord(op, arg, lw2) ==
  /\ last' = [op |-> op, arg |-> arg, error |-> lw2.error, pre |-> Pre(World),
              before |-> LegacyWorld,
              prev |-> [op |-> last.op, arg |-> last.arg]]
  /\ lg' = lw2.lg
  /\ els' = lw2.els
  /\ tasks' = lw2.tasks
  /\ UNCHANGED <<layers, listeners, heap, nextRef, obs, unsubs, capUse, snap,
                 since, ops, subAt, kind, frames, faulty, surf, hist, created,
                 containers>>

\* A caller calls the legacy createLayer(Component, root)
LegacyCreate ==
  /\ Call
  /\ \E l \in LegacyLayers, isClass \in BOOLEAN, id \in RootIds :
       /\ ~lg[l].made
       /\ LegacyRecord("legacyCreate", l, legacyCreateLayer(LegacyWorld, l, isClass, id))

\* A caller calls layer.render(props) on a legacy layer
LegacyRender ==
  /\ Call
  /\ \E l \in LegacyLayers, props \in Props :
       /\ lg[l].made
       /\ LegacyRecord("legacyRender", l, legacyRender(LegacyWorld, l, props))

\* A caller, or the component through its layer prop, calls layer.destroy()
LegacyDestroy ==
  /\ Call
  /\ \E l \in LegacyLayers :
       /\ lg[l].made
       /\ LegacyRecord("legacyDestroy", l, legacyDestroy(LegacyWorld, l))

\* The engine runs the first queued microtask
RunMicrotask ==
  /\ tasks # <<>>
  /\ LegacyRecord("microtask", Head(tasks),
                  destroyTask([LegacyWorld EXCEPT !.tasks = Tail(@)], Head(tasks)))
  /\ UNCHANGED steps

\* React commits a scheduled render, in a task of its own: after the
\* microtasks queued so far
Commit ==
  /\ tasks = <<>>
  /\ \E l \in LegacyLayers :
       /\ lg[l].scheduled # <<>>
       /\ LegacyRecord("commit", l, commit(LegacyWorld, l))
  /\ UNCHANGED steps

NextLegacy ==
  \/ LegacyCreate
  \/ LegacyRender
  \/ LegacyDestroy
  \/ RunMicrotask
  \/ Commit

SpecLegacy == Init /\ [][NextLegacy]_vars

\* The engine runs every queued microtask once the caller's code has
\* returned, and React runs the renders it scheduled.
SpecLegacyFair == SpecLegacy /\ WF_vars(RunMicrotask) /\ WF_vars(Commit)

----------------------------------------------------------------------------
\* What the claims are stated with

\* The array the store currently publishes
Snapshot == heap[getSnapshot(World)]

\* arr without every entry whose key is k, the others in their order
RECURSIVE Without(_, _)
Without(arr, k) ==
  IF arr = <<>> THEN <<>>
  ELSE IF Head(arr).key = k THEN Without(Tail(arr), k)
       ELSE <<Head(arr)>> \o Without(Tail(arr), k)

\* The number of entries of arr whose key is k
CountKey(arr, k) == Cardinality({i \in DOMAIN arr : arr[i].key = k})

\* The latest call on the store was add, destroy or notify
LastNotifies == last.op \in {"add", "destroy", "notify"}

\* Every callback ran once more than before the latest call if it was
\* registered when the call started, and not at all otherwise
EachRegisteredRanOnce ==
  \A l \in Callbacks :
    obs[l].calls = last.pre.calls[l]
                     + (IF SetHas(last.pre.listeners, l) THEN 1 ELSE 0)

\* C1: after add(l) the snapshot is the previous snapshot with l appended
\* as its last element, whether or not l's key was already present.
C1_AddAppends ==
  last.op = "add" =>
    /\ Snapshot = Append(last.pre.contents, last.arg)
    /\ Len(Snapshot) = Len(last.pre.contents) + 1
    /\ \A i \in DOMAIN last.pre.contents : Snapshot[i] = last.pre.contents[i]

\* An add of a layer whose key was already present, onto two earlier entries
C1_Witness ==
  /\ last.op = "add"
  /\ Len(last.pre.contents) = 2
  /\ last.pre.contents[1] # last.pre.contents[2]
  /\ CountKey(last.pre.contents, last.arg.key) >= 1

\* C2: after destroy(k) the snapshot is the previous snapshot without every
\* entry of key k, the survivors in their original relative order.
C2_DestroyRemovesAll ==
  last.op = "destroy" =>
    /\ Snapshot = Without(last.pre.contents, last.arg)
    /\ CountKey(Snapshot, last.arg) = 0

\* A destroy that removed two entries and left two different ones behind
C2_Witness ==
  /\ last.op = "destroy"
  /\ CountKey(last.pre.contents, last.arg) = 2
  /\ Len(Snapshot) = 2
  /\ Snapshot[1] # Snapshot[2]

\* C3: destroy(k) with no entry of key k raises no error, leaves the layer
\* contents unchanged and still notifies every registered listener once.
C3_NoOpDestroyNotifies ==
  (last.op = "destroy" /\ CountKey(last.pre.contents, last.arg) = 0) =>
    /\ ~last.error
    /\ Snapshot = last.pre.contents
    /\ EachRegisteredRanOnce

\* A destroy of an absent key on a non-empty registry with two listeners
C3_Witness ==
  /\ last.op = "destroy"
  /\ CountKey(last.pre.contents, last.arg) = 0
  /\ Len(last.pre.contents) >= 1
  /\ Len(last.pre.listeners) = 2
  /\ \A l \in Callbacks : obs[l].calls = last.pre.calls[l] + 1

\* C4: as long as neither add nor destroy was called since a getSnapshot()
\* call, getSnapshot() returns the identical reference, also across notify,
\* subscribe and unsubscribe calls.
C4_SnapshotStable ==
  (snap.ref # 0 /\ since \cap {"add", "destroy"} = {}) =>
    getSnapshot(World) = snap.ref

\* notify, subscribe and unsubscribe were all called since the getSnapshot()
C4_Witness ==
  /\ snap.ref # 0
  /\ since = {"notify", "subscribe", "unsubscribe"}
  /\ getSnapshot(World) = snap.ref

\* C5: after any add or destroy, also a destroy that removes nothing,
\* getSnapshot() returns a reference other than the one current before.
C5_MutationPublishesNewRef ==
  last.op \in {"add", "destroy"} =>
    /\ getSnapshot(World) # last.pre.layers
    /\ (("add" \notin since /\ "destroy" \notin since) \/ snap.ref = 0
          \/ getSnapshot(World) # snap.ref)

\* A destroy that removed nothing and still published another reference
C5_Witness ==
  /\ last.op = "destroy"
  /\ Len(Snapshot) >= 1
  /\ Snapshot = last.pre.contents
  /\ getSnapshot(World) # last.pre.layers

\* C6: the array behind a reference a reader or a callback obtained keeps
\* the contents it had when it was obtained, whatever is called later.
C6_SnapshotImmutable ==
  /\ snap.ref # 0 => heap[snap.ref] = snap.contents
  /\ \A l \in Callbacks : obs[l].ref # 0 => heap[obs[l].ref] = obs[l].contents

\* A non-empty snapshot was obtained, and add and destroy were called after it
C6_Witness ==
  /\ snap.ref # 0
  /\ Len(snap.contents) >= 1
  /\ {"add", "destroy"} \subseteq since
  /\ snap.ref # getSnapshot(World)
  /\ heap[snap.ref] = snap.contents

\* C7: one add, destroy or notify invokes each listener registered at that
\* moment exactly once, and no callback that was unsubscribed before.
C7_FanOutOnce == LastNotifies => EachRegisteredRanOnce

\* An add that reached the one remaining listener and not the callback that
\* had been notified earlier and was unsubscribed since
C7_Witness ==
  /\ last.op = "add"
  /\ Len(last.pre.listeners) = 1
  /\ \E l \in Callbacks :
       /\ ~SetHas(last.pre.listeners, l)
       /\ obs[l].calls >= 1
       /\ obs[l].calls = last.pre.calls[l]
  /\ \E l \in Callbacks :
       /\ SetHas(last.pre.listeners, l)
       /\ obs[l].calls = last.pre.calls[l] + 1
       /\ obs[l].calls >= 2

\* C8: a listener that has stayed subscribed has been invoked as often as
\* add, destroy and notify were called since it subscribed.
C8_OneNotificationPerCall ==
  \A l \in Members(listeners) :
    obs[l].calls - subAt[l].calls = ops - subAt[l].ops

\* A listener that subscribed after a call has since seen an add and a destroy
C8_Witness ==
  /\ last.op = "destroy"
  /\ "add" \in since
  /\ \E l \in Members(listeners) :
       /\ subAt[l].ops >= 1
       /\ ops - subAt[l].ops = 2
       /\ obs[l].calls = 2

\* The contents an add or destroy with argument arg leaves, given those before
Expected(before, op, arg) ==
  IF op = "add" THEN Append(before, arg) ELSE Without(before, arg)

\* C9: when an add or destroy returns, every listener registered when it
\* started has run for it, and what that run read from getSnapshot() is the
\* array this very call published, with this call's effect in it.
C9_ObservedInOrder ==
  last.op \in {"add", "destroy"} =>
    \A l \in Members(last.pre.listeners) :
      /\ obs[l].calls = last.pre.calls[l] + 1
      /\ obs[l].ref = getSnapshot(World)
      /\ obs[l].contents = Expected(last.pre.contents, last.op, last.arg)

\* A listener that saw an earlier call sees a destroy that removed an entry
C9_Witness ==
  /\ last.op = "destroy"
  /\ Snapshot # last.pre.contents
  /\ \E l \in Members(last.pre.listeners) :
       /\ last.pre.calls[l] >= 1
       /\ obs[l].contents = Snapshot

\* C10: subscribe leaves its callback in the listener set, and the closure
\* it returned removes that callback from the set and no other listener.
C10_SubscribeUnsubscribe ==
  /\ last.op = "subscribe" =>
       /\ SetHas(listeners, last.arg)
       /\ Members(listeners) = Members(last.pre.listeners) \cup {last.arg}
  /\ last.op = "unsubscribe" =>
       /\ ~SetHas(listeners, last.arg)
       /\ Members(listeners) = Members(last.pre.listeners) \ {last.arg}

\* An unsubscribe that removed its callback and left the other one registered
C10_Witness ==
  /\ last.op = "unsubscribe"
  /\ SetHas(last.pre.listeners, last.arg)
  /\ Len(last.pre.listeners) = 2
  /\ Len(listeners) = 1

\* The latest call left the listener set, the layers and every callback's
\* record as they were
LastCallChangedNothing ==
  /\ listeners = last.pre.listeners
  /\ getSnapshot(World) = last.pre.layers
  /\ Snapshot = last.pre.contents
  /\ Calls(World) = last.pre.calls

\* C11 as claimed: every call of an unsubscribe closure after its first one
\* changes nothing.
C11_RepeatedUnsubscribeNoOp ==
  (last.op = "unsubscribe" /\ last.use # "new") => LastCallChangedNothing

\* C11 as amended: a further call of an unsubscribe closure changes nothing
\* as long as its listener was not subscribed again since the closure's
\* latest call.
C11_RepeatedUnsubscribeNoOpUnlessResubscribed ==
  (last.op = "unsubscribe" /\ last.use = "called") => LastCallChangedNothing

\* A closure is called a second time while the other callback is registered
C11_Witness ==
  /\ last.op = "unsubscribe"
  /\ last.use = "called"
  /\ Len(listeners) = 1
  /\ ~SetHas(listeners, last.arg)

\* Some closure that captured another callback than g has been called
OtherWasUnsubscribed(g) ==
  \E c \in DOMAIN unsubs : unsubs[c] # g /\ capUse[c] # "new"

\* C12: calling the unsubscribe closure of one subscription neither removes
\* nor invokes the callback of another subscription, and a callback that is
\* still subscribed keeps being invoked for every later call and keeps
\* reading the current snapshot.
C12_UnsubscribeIsolation ==
  /\ last.op = "unsubscribe" =>
       \A g \in Callbacks \ {last.arg} :
         /\ SetHas(listeners, g) = SetHas(last.pre.listeners, g)
         /\ obs[g].calls = last.pre.calls[g]
  /\ \A g \in Members(listeners) :
       OtherWasUnsubscribed(g) =>
         /\ obs[g].calls - subAt[g].calls = ops - subAt[g].ops
         /\ ops > subAt[g].ops =>
              /\ obs[g].ref = getSnapshot(World)
              /\ obs[g].contents = Snapshot

\* Two callbacks were notified together, one was unsubscribed, and the other
\* one is notified of a later add and reads its result
C12_Witness ==
  /\ last.op = "add"
  /\ \E g \in Members(listeners) :
       /\ OtherWasUnsubscribed(g)
       /\ subAt[g].ops = 0
       /\ obs[g].calls = 2
       /\ obs[g].contents = Snapshot
       /\ \E f \in Callbacks \ {g} : ~SetHas(listeners, f) /\ obs[f].calls = 1

\* The number of subscribe calls made with the callback l
TimesSubscribed(l) == Cardinality({c \in DOMAIN unsubs : unsubs[c] = l})

\* C13: the listener set holds a callback at most once; subscribing a
\* callback that is registered changes nothing, and a notification invokes
\* a callback that was subscribed twice exactly once.
C13_DuplicatesCollapse ==
  /\ \A i, j \in DOMAIN listeners : listeners[i] = listeners[j] => i = j
  /\ (last.op = "subscribe" /\ SetHas(last.pre.listeners, last.arg)) =>
       listeners = last.pre.listeners
  /\ LastNotifies =>
       \A l \in Members(last.pre.listeners) :
         TimesSubscribed(l) >= 2 => obs[l].calls = last.pre.calls[l] + 1

\* A notification reaches a callback that was subscribed twice and never
\* unsubscribed
C13_Witness ==
  /\ last.op = "notify"
  /\ \E l \in Members(last.pre.listeners) :
       /\ TimesSubscribed(l) = 2
       /\ \A c \in DOMAIN unsubs : capUse[c] = "new"
       /\ obs[l].calls = last.pre.calls[l] + 1

\* C19: a call of an instance's render(props) appends one entry with the
\* instance's key and the given props and notifies every listener once;
\* the entries of earlier render calls on the instance stay.
C19_RenderAppends ==
  last.op = "render" =>
    /\ Snapshot = Append(last.pre.contents,
                         [key |-> last.arg.inst.key, props |-> last.arg.props])
    /\ CountKey(Snapshot, last.arg.inst.key)
         = CountKey(last.pre.contents, last.arg.inst.key) + 1
    /\ EachRegisteredRanOnce

\* The second render on an instance, with a listener registered
C19_Witness ==
  /\ last.op = "render"
  /\ CountKey(last.pre.contents, last.arg.inst.key) = 1
  /\ CountKey(Snapshot, last.arg.inst.key) = 2
  /\ Len(last.pre.listeners) >= 1

\* C20: an instance's destroy() removes every entry with the instance's key
\* and leaves the entries of other keys in place and in order; when the
\* instance has no entry it raises no error and leaves the contents as they were.
C20_InstanceDestroy ==
  last.op = "instanceDestroy" =>
    /\ ~last.error
    /\ Snapshot = Without(last.pre.contents, last.arg.key)
    /\ CountKey(Snapshot, last.arg.key) = 0
    /\ CountKey(last.pre.contents, last.arg.key) = 0 =>
         Snapshot = last.pre.contents

\* destroy() on an instance that was rendered twice, next to another
\* instance's entry
C20_Witness ==
  /\ last.op = "instanceDestroy"
  /\ CountKey(last.pre.contents, last.arg.key) = 2
  /\ Len(Snapshot) >= 1

\* The surfaces that are mounted
Mounted == {s \in Surfaces : surf[s].mounted}

\* C15: between calls, every mounted surface holds the very array
\* LayerStore.layers refers to and shows one child per entry, in the
\* snapshot's order, also right after it was mounted.
C15_SurfaceShowsLatest ==
  \A s \in Mounted :
    /\ surf[s].value = getSnapshot(World)
    /\ ~surf[s].dirty
    /\ Len(surf[s].output) = Len(Snapshot)
    /\ \A i \in DOMAIN Snapshot :
         /\ surf[s].output[i].elementKey = Snapshot[i].key
         /\ surf[s].output[i].elementProps = Snapshot[i].props

\* One surface was mounted on a non-empty registry and has been re-rendered
\* for a later add; the other was mounted after both adds
C15_Witness ==
  /\ Mounted = Surfaces
  /\ Len(Snapshot) = 2
  /\ Snapshot[1] # Snapshot[2]
  /\ \E s \in Surfaces : surf[s].renders = 2
  /\ \E s \in Surfaces : surf[s].renders = 1 /\ last.op = "mount" /\ last.arg = s

\* C16: the listener set holds exactly one listener per mounted surface.
C16_NoListenerLeak ==
  /\ Len(listeners) = Cardinality(Mounted)
  /\ \A s \in Surfaces : surf[s].mounted <=> SetHas(listeners, s)

\* Every surface was mounted, one of them re-rendered, and all are unmounted
C16_Witness ==
  /\ Mounted = {}
  /\ listeners = <<>>
  /\ \A s \in Surfaces : surf[s].renders >= 1
  /\ \E s \in Surfaces : surf[s].renders >= 2

\* C14 as claimed: when a call of add / destroy / notify has returned, every
\* listener that was registered when it began has been invoked in its cycle.
C14_RegisteredAtStartAreCalled ==
  (last.op \in {"add", "destroy", "notify"} /\ last.done) =>
    \A l \in Members(last.pre.listeners) : last.ran[l] >= 1

\* C17 as claimed: every call of add / destroy / notify that has begun returns.
C17_CallsComplete == (frames # <<>>) ~> (frames = <<>>)

C21_LayerDestroyIsDestroy ==
  /\ \A h \in Made :
       /\ layerDestroy(World, Handle(h)) = destroy(World, Handle(h).key)
       /\ layerDestroy(World, Handle(h)) = instanceDestroy(World, Handle(h))
  /\ last.op = "layerDestroy" =>
       /\ Snapshot = Without(last.pre.contents, last.arg.key)
       /\ listeners = last.pre.listeners
       /\ ~last.error
       /\ \A l \in Callbacks :
            obs[l].calls = last.pre.calls[l] + (IF SetHas(listeners, l) THEN 1 ELSE 0)

\* A layer's capability removed its entry and left another's, with a
\* listener that saw it
C21_Witness ==
  /\ last.op = "layerDestroy"
  /\ Len(last.pre.contents) = 2
  /\ Len(Snapshot) = 1
  /\ listeners # <<>>
  /\ \A l \in Members(listeners) : obs[l].contents = Snapshot

\* C22 as claimed: every handle created with a key string has that key.
C22_ProvidedKeyUsed ==
  \A h \in Made :
    created[h][1].arg # <<>> => Handle(h).key = created[h][1].arg[1]

\* C23 as claimed: two handles created without a key have different keys.
C23_GeneratedKeysDistinct ==
  \A h, g \in Made :
    (h # g /\ created[h][1].arg = <<>> /\ created[g][1].arg = <<>>) =>
      Handle(h).key # Handle(g).key

\* The layers of the history whose key was passed to no destroy since they
\* were added, in the order they were added
Alive(h) ==
  LET kept == SelectSeq(h, LAMBDA e : e.alive)
  IN  [i \in DOMAIN kept |-> kept[i].layer]

\* C27: in every state the snapshot is the history of added layers, in the
\* order of the adds, without those whose key was passed to destroy since
\* they were added; so it is empty at the start, changes with add and
\* destroy only, and loses nothing on its own.
C27_SnapshotIsLiveHistory == Snapshot = Alive(hist)

\* A history of three adds, the middle one destroyed and its key added again
C27_Witness ==
  /\ Len(hist) = 4
  /\ ~hist[2].alive
  /\ hist[1].alive /\ hist[3].alive /\ hist[4].alive
  /\ hist[4].layer.key = hist[2].layer.key
  /\ hist[3].layer.key = hist[1].layer.key

\* The key the latest call added a layer with or passed to destroy
KeyOfLast ==
  (AddedBy(last.op, last.arg) \o
     [i \in DOMAIN DestroyedBy(last.op, last.arg) |->
        [key |-> DestroyedBy(last.op, last.arg)[i]]])[1].key

C25_RenderFailureLeavesRegistry ==
  /\ last.op = "add" =>
       /\ ~last.error
       /\ Snapshot = Append(last.pre.contents, last.arg)
  /\ \A inst \in Instances, props \in Props :
       LET w2 == flush(render(World, inst, props), 1)
       IN  /\ ~w2.error
           /\ contents(w2) = Append(Snapshot, [key |-> inst.key, props |-> props])
  /\ Snapshot = Alive(hist)

\* A layer whose component throws was added while a surface was mounted:
\* the surface went down, the layer is registered, and so is an earlier one
C25_Witness ==
  /\ last.op = "add"
  /\ last.arg.key \in faulty
  /\ \E s \in Surfaces : SetHas(last.pre.listeners, s) /\ ~surf[s].mounted
  /\ Len(Snapshot) = 2
  /\ Snapshot[2] = last.arg

\* A destroy() of the legacy layer l is queued, and its effect is there
DestroyQueued(l) == \E i \in DOMAIN tasks : tasks[i] = l
Destroyed(l) == lg[l].Root = "unmounted" /\ lg[l].instance = "null"

\* C26: a legacy layer's destroy() returns with the root and layer.instance
\* as they were and the unmount queued, and a queued destroy() leads to the
\* layer's root being unmounted and layer.instance being null.
C26_LegacyDestroyEventually ==
  /\ [][LegacyDestroy => (lg' = lg /\ els' = els /\ Len(tasks') = Len(tasks) + 1)]_vars
  /\ \A l \in LegacyLayers : DestroyQueued(l) ~> Destroyed(l)

\* The queued task of a destroy() ran on a layer that was mounted with an
\* instance: it is unmounted, and its instance is null
C26_Witness ==
  /\ last.op = "microtask"
  /\ last.before.lg[last.arg].Root = "live"
  /\ last.before.lg[last.arg].instance = "set"
  /\ last.before.lg[last.arg].shown # <<>>
  /\ Destroyed(last.arg)

\* The listeners that threw in the latest call
Threw == {l \in Callbacks : kind[l] = "throws" /\ last.ran[l] >= 1}

\* C28: a listener that throws in the notification of an add or destroy
\* makes the call fail: the call is over with the exception and has not
\* returned, the listener ran once and is the only one that threw, no
\* listener that stood behind it when the call began was invoked, the
\* layers are those the call assigned, and the listener set is the one the
\* call began with unless an invoked listener subscribed or unsubscribed.
C28_NoFaultIsolation ==
  last.op \in {"add", "destroy"} =>
    /\ (Threw # {}) <=> last.error
    /\ last.error =>
         /\ frames = <<>>
         /\ ~last.done
         /\ Snapshot = Expected(last.pre.contents, last.op, last.arg)
         /\ layers # last.pre.layers
         /\ \E t \in Threw :
              /\ Threw = {t}
              /\ last.ran[t] = 1
              /\ \A l \in Callbacks :
                   (Position(last.pre.listeners, t) # 0
                      /\ Position(last.pre.listeners, l) > Position(last.pre.listeners, t))
                     => last.ran[l] = 0
         /\ (\A l \in Callbacks : last.ran[l] >= 1 => kind[l] \in {"plain", "throws"})
              => listeners = last.pre.listeners

\* An add failed by the first of two listeners: the second was not invoked,
\* the layer is registered, both are still subscribed
C28_Witness ==
  /\ last.op = "add"
  /\ last.error
  /\ Len(last.pre.listeners) = 2
  /\ kind[last.pre.listeners[1]] = "throws"
  /\ kind[last.pre.listeners[2]] = "plain"
  /\ last.ran[last.pre.listeners[2]] = 0
  /\ listeners = last.pre.listeners
  /\ Snapshot = <<last.arg>>

\* How often the callback l has run in the world w, beyond the present state
RanSince(w, l) == w.obs[l].calls - obs[l].calls

\* C29: a notify() call leaves the layers, the array getSnapshot() returns
\* and the listener set as they were and raises nothing; it calls each
\* registered listener once, so with no listener it changes nothing at all.
C29_NotifyChangesNoState ==
  /\ LET w2 == notify(World)
     IN  /\ w2.layers = layers
         /\ w2.heap = heap
         /\ w2.listeners = listeners
         /\ ~w2.error
         /\ listeners = <<>> => w2 = World
  /\ last.op = "notify" =>
       /\ layers = last.pre.layers
       /\ Snapshot = last.pre.contents
       /\ listeners = last.pre.listeners
       /\ ~last.error
       /\ \A l \in Callbacks :
            obs[l].calls = last.pre.calls[l] + (IF SetHas(listeners, l) THEN 1 ELSE 0)

\* A notify() with two listeners on a registry of two layers
C29_Witness ==
  /\ last.op = "notify"
  /\ Len(listeners) = 2
  /\ Len(Snapshot) = 2
  /\ \A l \in Callbacks : obs[l].calls = last.pre.calls[l] + 1 /\ obs[l].ref = layers

\* C30: for every key, destroy(k) followed by destroy(k) leaves the layers
\* a single destroy(k) leaves, and each of the two calls runs every
\* registered listener once; a destroy of a key that has no entry left
\* leaves the layers as they were.
C30_DestroyIdempotent ==
  /\ \A k \in Keys :
       LET once  == destroy(World, k)
           twice == destroy(once, k)
       IN  /\ contents(twice) = contents(once)
           /\ contents(once) = Without(Snapshot, k)
           /\ \A l \in Callbacks :
                /\ RanSince(once, l) = (IF SetHas(listeners, l) THEN 1 ELSE 0)
                /\ RanSince(twice, l) = (IF SetHas(listeners, l) THEN 2 ELSE 0)
  /\ (last.op = "destroy" /\ CountKey(last.pre.contents, last.arg) = 0) =>
       /\ Snapshot = last.pre.contents
       /\ \A l \in Members(listeners) : obs[l].calls = last.pre.calls[l] + 1

\* A second destroy of a key whose entry the first had removed: the other
\* layer is still there and the listener was called again
C30_Witness ==
  /\ last.op = "destroy"
  /\ \E i \in DOMAIN hist : ~hist[i].alive /\ hist[i].layer.key = last.arg
  /\ CountKey(last.pre.contents, last.arg) = 0
  /\ Len(Snapshot) = 1
  /\ listeners # <<>>
  /\ \A l \in Members(listeners) : obs[l].calls = 2

\* C34: when a callback was subscribed twice and one of the two closures
\* has been called since, the callback is out of the listener set although
\* the other closure was never called, and a notification does not reach it.
C34_EitherClosureRemoves ==
  /\ last.op = "unsubscribe" => ~SetHas(listeners, last.arg)
  /\ \A c1, c2 \in DOMAIN unsubs :
       (c1 # c2 /\ unsubs[c1] = unsubs[c2]
          /\ capUse[c1] = "called" /\ capUse[c2] = "new") =>
         /\ ~SetHas(listeners, unsubs[c1])
         /\ LastNotifies => obs[unsubs[c1]].calls = last.pre.calls[unsubs[c1]]

\* A callback subscribed twice, one closure called, then a notification that
\* reached the other callback only
C34_Witness ==
  /\ last.op = "notify"
  /\ \E c1, c2 \in DOMAIN unsubs :
       /\ c1 # c2 /\ unsubs[c1] = unsubs[c2]
       /\ capUse[c1] = "called" /\ capUse[c2] = "new"
       /\ obs[unsubs[c1]].calls = 0
       /\ \E g \in Members(listeners) : g # unsubs[c1] /\ obs[g].calls = 1

\* C35: add and destroy, directly or through a handle, leave the listener
\* set as it was; subscribe and unsubscribe leave the layers array, its
\* contents and every callback's call count as they were.
C35_DisjointState ==
  /\ \A layer \in Layer : add(World, layer).listeners = listeners
  /\ \A k \in Keys : destroy(World, k).listeners = listeners
  /\ \A l \in Callbacks :
       /\ subscribe(World, l).layers = layers
       /\ subscribe(World, l).heap = heap
       /\ subscribe(World, l).obs = obs
       /\ unsubscribe(World, l).layers = layers
       /\ unsubscribe(World, l).heap = heap
       /\ unsubscribe(World, l).obs = obs
  /\ last.op \in {"add", "destroy", "render", "instanceDestroy"} =>
       listeners = last.pre.listeners
  /\ last.op \in {"subscribe", "unsubscribe"} =>
       /\ layers = last.pre.layers
       /\ Snapshot = last.pre.contents
       /\ Calls(World) = last.pre.calls

\* A second callback was subscribed to a registry with a layer and a
\* listener that had run: nothing ran, the layers are the same array
C35_Witness ==
  /\ last.op = "subscribe"
  /\ Len(last.pre.listeners) = 1
  /\ Len(listeners) = 2
  /\ Snapshot # <<>>
  /\ obs[listeners[1]].calls >= 1
  /\ obs[listeners[2]].calls = 0

\* C36: in every state, two destroy calls leave the same contents in either
\* order, and so do an add and a destroy of another key than the layer's.
C36_Commute ==
  /\ \A k1, k2 \in Keys :
       contents(destroy(destroy(World, k1), k2))
         = contents(destroy(destroy(World, k2), k1))
  /\ \A layer \in Layer, k \in Keys :
       layer.key # k =>
         contents(destroy(add(World, layer), k))
           = contents(add(destroy(World, k), layer))

\* Entries of both keys, one key on both sides of the other, after a
\* destroy and an add of the one key
C36_Witness ==
  /\ Len(Snapshot) = 3
  /\ Snapshot[1].key = Snapshot[3].key
  /\ Snapshot[2].key # Snapshot[1].key
  /\ \E i \in DOMAIN hist : ~hist[i].alive
  /\ last.op = "add"

\* The callback l was registered when the latest call began, behind a
\* listener that unsubscribes it when invoked
RemovedBeforeReached(l) ==
  /\ last.op \in {"add", "destroy", "notify"}
  /\ kind[Other(l)] = "unsubOther"
  /\ Position(last.pre.listeners, Other(l)) # 0
  /\ Position(last.pre.listeners, Other(l)) < Position(last.pre.listeners, l)

\* C32: no step invokes a callback that is not in the listener set, so a
\* callback whose unsubscribe closure has returned is not invoked until it
\* is subscribed again; and a callback that another listener unsubscribes
\* before forEach has reached it is not invoked in that call.
C32_NoCallAfterUnsubscribe ==
  /\ [][\A l \in Callbacks : ~SetHas(listeners, l) => obs'[l] = obs[l]]_vars
  /\ [](\A l \in Callbacks : RemovedBeforeReached(l) => last.ran[l] = 0)

\* A call returned in which the first listener unsubscribed the second:
\* the second was not invoked and is out of the set
C32_Witness ==
  /\ last.op = "add"
  /\ last.done
  /\ \E l \in Callbacks :
       /\ RemovedBeforeReached(l)
       /\ last.ran[Other(l)] = 1
       /\ last.ran[l] = 0
       /\ ~SetHas(listeners, l)
       /\ obs[l].calls = last.pre.calls[l]

\* C31: the document has at most one container of each id and one of the
\* id of every LayerRoot that has rendered; createRenderRoot on an id the
\* document has changes nothing, and applied twice it does what it does once.
C31_OneContainerPerId ==
  /\ \A id \in RootIds :
       /\ containers[id] <= 1
       /\ createRenderRootPortal(createRenderRootPortal(World, id), id)
            = createRenderRootPortal(World, id)
       /\ containers[id] = 1 => createRenderRootPortal(World, id) = World
       /\ createRenderRootPortal(World, id).containers[id] = 1
  /\ \A s \in Surfaces : surf[s].renders > 0 => containers[surf[s].root] = 1

\* Two LayerRoots with the same root id are mounted and one has rendered
\* again: one container of that id, none of the other id
C31_Witness ==
  /\ Mounted = Surfaces
  /\ \A s \in Surfaces : surf[s].root = "custom-root"
  /\ \E s \in Surfaces : surf[s].renders >= 2
  /\ containers["custom-root"] = 1
  /\ containers["layer-root"] = 0

\* How many children of the surface s have the key k
Shown(s, k) ==
  Cardinality({i \in DOMAIN surf[s].output : surf[s].output[i].elementKey = k})

\* C37: every mounted LayerRoot, whatever its root id, is subscribed to the
\* one registry, has a container of its id in the document and shows the
\* whole snapshot: as many children of each key as the registry has entries.
C37_NotPartitioned ==
  \A s \in Mounted :
    /\ SetHas(listeners, s)
    /\ containers[surf[s].root] = 1
    /\ surf[s].output = LayerRootChildren(Snapshot)
    /\ \A k \in Keys : Shown(s, k) = CountKey(Snapshot, k)

\* Two LayerRoots with different root ids, both showing both layers of the
\* registry, added after they were mounted
C37_Witness ==
  /\ Mounted = Surfaces
  /\ \E s, t \in Surfaces : surf[s].root # surf[t].root
  /\ Len(Snapshot) = 2
  /\ \A s \in Surfaces : Len(surf[s].output) = 2 /\ surf[s].renders = 3
  /\ \A id \in RootIds : containers[id] = 1

\* The legacy layers other than l that have children in the container e
Sharing(l, e) ==
  {o \in LegacyLayers \ {l} : lg[o].made /\ lg[o].root = e /\ lg[o].shown # <<>>}

\* C38: when the task a legacy destroy() queued has run on a layer, the
\* layer's container is in the document exactly if it was there before and
\* another layer still has children in it, and no other container has
\* entered or left the document.
C38_ContainerRemovedOnlyWhenEmpty ==
  last.op = "microtask" =>
    LET l == last.arg
        e == last.before.lg[l].root
    IN  /\ lg[l].root = e
        /\ els[e].attached = (last.before.els[e].attached /\ Sharing(l, e) # {})
        /\ \A o \in LegacyLayers \ {e} : els[o] = last.before.els[o]

\* The task ran on a layer that had rendered into a container it shares
\* with another layer that has children there: the container stays
C38_Witness ==
  /\ last.op = "microtask"
  /\ last.before.lg[last.arg].shown # <<>>
  /\ Sharing(last.arg, lg[last.arg].root) # {}
  /\ els[lg[last.arg].root].attached

\* The latest step was layer.render(props) on a live legacy layer whose
\* destroy() was queued
RenderedAfterDestroy ==
  /\ last.op = "legacyRender"
  /\ last.before.lg[last.arg].Root = "live"
  /\ \E i \in DOMAIN last.before.tasks : last.before.tasks[i] = last.arg

\* The latest step was the queued task of the layer, right after a
\* layer.render(props) on it that was issued while the task was queued
UnmountedAfterRender ==
  /\ last.op = "microtask"
  /\ last.prev = [op |-> "legacyRender", arg |-> last.arg]

ReturnedAfterReentry ==
  /\ frames = <<>>
  /\ last.op \in {"add", "destroy", "notify"}
  /\ last.done
  /\ ~last.error
  /\ last.nested > 0

\* C33: once the outermost call has returned after listeners called add or
\* destroy while they were notified, every subscribed listener has been
\* invoked since the latest assignment of LayerStore.layers, and the
\* snapshot it last read is the array the store has.
C33_ReentrantMutationSettles ==
  ReturnedAfterReentry =>
    \A i \in DOMAIN listeners :
      /\ listeners[i] \in last.seen
      /\ obs[listeners[i]].ref = layers
      /\ obs[listeners[i]].contents = Snapshot

\* Both callbacks are subscribed, the first called add while it was
\* notified of an add, and the outermost add has returned: both ran twice
\* and have read the array with both layers
C33_Witness ==
  /\ ReturnedAfterReentry
  /\ last.op = "add"
  /\ Len(listeners) = 2
  /\ kind[listeners[1]] = "mutates"
  /\ kind[listeners[2]] = "plain"
  /\ \A l \in Callbacks : last.ran[l] = 2
  /\ Len(Snapshot) = 2

====
